---------------------------- MODULE Spec2Model ----------------------------
(***************************************************************************)
(* KF-Datacloud: a Map-backed key/value store (class Cloud, src/index.js)  *)
(* replicated to a two-column Google spreadsheet.                          *)
(*                                                                         *)
(* JavaScript values are tagged tuples: <<"undefined">>, <<"null">>,       *)
(* <<"number", n>>, <<"string", s>>, <<"object", f, o>> and                 *)
(* <<"array", f, o>>, f a function from property names to values and o the *)
(* names in the order the object enumerates them. Spreadsheet cells are    *)
(* strings (the cell's formattedValue); "" is an empty cell.               *)
(***************************************************************************)
EXTENDS Integers, Sequences, FiniteSets, TLC

VARIABLES
  phase,          \* "init" (constructor ran, [_init] pending), "ready", "dead"
  spreadsheet,    \* module-level _spreadsheet: the sheet as spreadsheets.get
                  \* answered it, <<>> while undefined
  cache,          \* the Map part of the Cloud instance: key -> value
  shared,         \* sets of keys whose Map entries are one and the same object
  keyRowNumbers,  \* module-level array _keyRowNumbers
  remote,         \* the sheet: sequence of rows <<A, B>>, row 1 first
  pending,        \* remote calls issued and not yet answered, oldest first
  failures,       \* how many calls were rejected so far
  calls,          \* how many calls the caller has made so far
  renumbering,    \* <<key, _keyRowNumbers before>> of a delete(key) with no call
                  \* made since, <<>> otherwise
  last            \* the step just taken

vars == <<phase, spreadsheet, cache, shared, keyRowNumbers, remote, pending,
          failures, calls, renumbering, last>>

-----------------------------------------------------------------------------
(* Bounds of the model *)

\* calls of set, delete, deleteAll, clear, fetchEverything and of the
\* constructor after the first
MaxCalls == 2
\* number of data rows of the sheet when the instance is constructed
MaxInitRows == 3
\* remote calls in flight at once
MaxPending == 2
\* calls that are rejected
MaxFailures == 1

-----------------------------------------------------------------------------
(* JavaScript values *)

Undefined == <<"undefined">>
Null == <<"null">>
Num(n) == <<"number", n>>
Str(s) == <<"string", s>>
\* the property names of the model as an object literal of the caller writes
\* them: { x: .., y: .. }, [ .. ]
LiteralOrder == <<"0", "x", "y">>
\* own keys that are array indices are enumerated first, in ascending order, the
\* other keys after them in the order they were added ("0" is the only index
\* the model has)
IsIndex(name) == name = "0"
KeysIn(order, names) == LET In(n) == n \in names IN SelectSeq(order, In)
Obj(f) == <<"object", f, KeysIn(LiteralOrder, DOMAIN f)>>
Arr(f) == <<"array", f, KeysIn(LiteralOrder, DOMAIN f)>>
NoProps == [p \in {} |-> Undefined]

\* typeof v
TypeOf(v) == IF v[1] \in {"object", "array", "null"} THEN "object" ELSE v[1]

\* lodash isObject: a non-null object
IsObject(v) == v[1] \in {"object", "array"}

\* _.isPlainObject(v)
IsPlainObject(v) == v[1] = "object"

\* if (v): JavaScript truthiness
Truthy(v) ==
  CASE v[1] \in {"undefined", "null"} -> FALSE
    [] v[1] = "number" -> v[2] # 0
    [] v[1] = "string" -> v[2] # ""
    [] OTHER -> TRUE

\* v[name]: property read
Prop(v, name) ==
  IF IsObject(v) /\ name \in DOMAIN v[2] THEN v[2][name] ELSE Undefined

\* v[name] = w on an object or array v
WithProp(v, name, w) ==
  <<v[1], [p \in (DOMAIN v[2]) \cup {name} |-> IF p = name THEN w ELSE v[2][p]],
    IF name \in DOMAIN v[2] THEN v[3]
    ELSE IF IsIndex(name) THEN <<name>> \o v[3]
    ELSE Append(v[3], name)>>

\* delete v[name]
WithoutProp(v, name) ==
  IF IsObject(v)
  THEN <<v[1], [p \in (DOMAIN v[2]) \ {name} |-> v[2][p]],
         KeysIn(v[3], (DOMAIN v[2]) \ {name})>>
  ELSE v

\* lodash castPath: the property names a path argument addresses
CastPath(path) ==
  CASE path = Str("x.y") -> <<"x", "y">>
    [] path[1] = "string" -> <<path[2]>>
    [] path[1] = "number" -> <<ToString(path[2])>>
    [] path[1] = "undefined" -> <<"undefined">>
    [] path[1] = "null" -> <<"null">>
    [] OTHER -> <<"[object Object]">>

RECURSIVE BaseGet(_, _)
BaseGet(object, names) ==
  IF names = <<>> THEN object
  ELSE IF object[1] \in {"undefined", "null"} THEN Undefined
  ELSE BaseGet(Prop(object, Head(names)), Tail(names))

\* _.get(object, path, defaultValue)
LodashGet(object, path, defaultValue) ==
  LET result == IF object[1] \in {"undefined", "null"} THEN Undefined
                ELSE BaseGet(object, CastPath(path))
  IN  IF result = Undefined THEN defaultValue ELSE result

RECURSIVE BaseSet(_, _, _)
BaseSet(object, names, value) ==
  IF Len(names) = 1 THEN WithProp(object, Head(names), value)
  ELSE LET objValue == Prop(object, Head(names))
           child == IF IsObject(objValue) THEN objValue ELSE Obj(NoProps)
       IN  WithProp(object, Head(names), BaseSet(child, Tail(names), value))

\* _.set(object, path, value): the object after the call
LodashSet(object, path, value) ==
  IF IsObject(object) THEN BaseSet(object, CastPath(path), value) ELSE object

RECURSIVE BaseUnset(_, _)
BaseUnset(object, names) ==
  IF ~IsObject(object) THEN object
  ELSE IF Len(names) = 1 THEN WithoutProp(object, Head(names))
  ELSE IF Head(names) \in DOMAIN object[2]
       THEN WithProp(object, Head(names),
                     BaseUnset(object[2][Head(names)], Tail(names)))
       ELSE object

\* _.unset(object, path): the object after the call
LodashUnset(object, path) == BaseUnset(object, CastPath(path))

-----------------------------------------------------------------------------
(* JSON text and sheet cells *)

RECURSIVE Stringify(_)
RECURSIVE StringifyProps(_, _, _)
\* the properties of v from the i-th on, in the order v enumerates them
StringifyProps(v, i, first) ==
  IF i > Len(v[3]) THEN ""
  ELSE (IF first THEN "" ELSE ",")
       \o (IF v[1] = "array" THEN "" ELSE "\"" \o v[3][i] \o "\":")
       \o Stringify(v[2][v[3][i]])
       \o StringifyProps(v, i + 1, FALSE)

\* JSON.stringify(v)
Stringify(v) ==
  CASE v[1] = "number" -> ToString(v[2])
    [] v[1] = "string" -> "\"" \o v[2] \o "\""
    [] v[1] = "null" -> "null"
    [] v[1] = "object" -> "{" \o StringifyProps(v, 1, TRUE) \o "}"
    [] v[1] = "array" -> "[" \o StringifyProps(v, 1, TRUE) \o "]"
    [] OTHER -> ""

\* the JSON values JSON.parse can return here
JsonScalars == {Null, Num(1), Num(2), Str("s")}
JsonFlat ==
  {Obj(f) : f \in UNION {[D -> JsonScalars] : D \in SUBSET {"x", "y"}}}
    \cup {<<"object", f, <<"y", "x">>>> : f \in [{"x", "y"} -> JsonScalars]}
    \cup {Arr(NoProps), Arr([p \in {"0"} |-> Num(1)])}
JsonInner ==
  JsonScalars \cup {Obj(NoProps), Obj([p \in {"y"} |-> Num(1)]),
                    Arr(NoProps), Arr([p \in {"0"} |-> Num(1)])}
JsonValues ==
  JsonScalars \cup JsonFlat
    \cup {Obj([p \in {"x"} |-> o]) : o \in JsonFlat}
    \cup {Obj(f) : f \in UNION {[D -> JsonInner] : D \in SUBSET {"x", "y"}}}
    \cup {<<"object", f, <<"y", "x">>>> : f \in [{"x", "y"} -> JsonInner]}

\* JSON.parse(text) succeeds
Parses(text) == \E v \in JsonValues : Stringify(v) = text

\* try { JSON.parse(text) } catch (e) { text }
ParseOrRaw(text) ==
  IF Parses(text) THEN CHOOSE v \in JsonValues : Stringify(v) = text
  ELSE Str(text)

\* if (typeof value === 'object') value = JSON.stringify(value)
Encode(value) ==
  IF TypeOf(value) = "object" THEN Str(Stringify(value)) ELSE value

\* the formattedValue of a cell the value was entered in
CellText(value) ==
  CASE value[1] = "string" -> value[2]
    [] value[1] = "number" -> ToString(value[2])
    [] OTHER -> ""

-----------------------------------------------------------------------------
(* Arrays and the Map *)

\* _keyRowNumbers.indexOf(key): 0-based, -1 when absent
IndexOf(seq, key) ==
  IF \E i \in 1..Len(seq) : seq[i] = key
  THEN (CHOOSE i \in 1..Len(seq) :
          seq[i] = key /\ \A j \in 1..(i - 1) : seq[j] # key) - 1
  ELSE -1

\* _keyRowNumbers.splice(index, 1): a negative index counts from the end
Splice(seq, index) ==
  LET start == IF index < 0 THEN Len(seq) + index + 1 ELSE index + 1
  IN  IF start < 1 \/ start > Len(seq) THEN seq
      ELSE SubSeq(seq, 1, start - 1) \o SubSeq(seq, start + 1, Len(seq))

\* super.get(key)
MapGet(map, key) == IF key \in DOMAIN map THEN map[key] ELSE Undefined

\* super.set(key, value)
MapSet(map, key, value) ==
  [k \in (DOMAIN map) \cup {key} |-> IF k = key THEN value ELSE map[k]]

\* MapDelete with super.delete moved behind the await of the remote call
MapDeleteLate(map, key) == map

\* super.delete(key)
MapDelete(map, key) == [k \in (DOMAIN map) \ {key} |-> map[k]]

EmptyMap == [k \in {} |-> Undefined]

\* the keys whose Map entries are the very object stored under key
Class(key) ==
  IF \E s \in shared : key \in s THEN CHOOSE s \in shared : key \in s
  ELSE {key}

\* the Map entry of key becomes an object of its own (or none)
Unshare(key) == {t \in {s \ {key} : s \in shared} : Cardinality(t) >= 2}

\* the Map entry of key becomes the object stored under ref
ShareWith(key, ref) ==
  IF key \in Class(ref) THEN shared
  ELSE (Unshare(key) \ {Class(ref)}) \cup {Class(ref) \cup {key}}

\* an in-place change of the object stored under key shows under every
\* key that holds this object
MutateInPlace(map, key, object) ==
  [k \in DOMAIN map |-> IF k \in Class(key) THEN object ELSE map[k]]

-----------------------------------------------------------------------------
(* Reads: Cloud.get and Cloud.ensure *)

\* get(key, path)
Get(map, key, path) ==
  LET value == MapGet(map, key)
  IN  IF TypeOf(value) # "object" \/ ~Truthy(path) THEN value
      ELSE LodashGet(value, path, Undefined)

\* ensure(...arguments): the parameters are (key, path, defaultValue); with two
\* arguments the second is taken as defaultValue and stays bound to path
Ensure(map, nargs, a1, a2, a3) ==
  LET key == a1
      path == IF nargs >= 2 THEN a2 ELSE Undefined
      defaultValue == IF nargs = 2 THEN a2 ELSE IF nargs = 3 THEN a3 ELSE Undefined
      value == MapGet(map, key)
  IN  IF value = Undefined THEN defaultValue
      ELSE IF TypeOf(value) # "object" THEN value
      ELSE LodashGet(value, path, defaultValue)

-----------------------------------------------------------------------------
(* The sheet behind the Sheets API *)

EmptyRow == <<"", "">>

RECURSIVE Trim(_)
\* rows after the last row with data are blank grid rows
Trim(sheet) ==
  IF sheet # <<>> /\ sheet[Len(sheet)] = EmptyRow
  THEN Trim(SubSeq(sheet, 1, Len(sheet) - 1))
  ELSE sheet

RowAt(sheet, row) == IF row \in 1..Len(sheet) THEN sheet[row] ELSE EmptyRow

Padded(sheet, rows) ==
  [r \in 1..(IF rows > Len(sheet) THEN rows ELSE Len(sheet)) |-> RowAt(sheet, r)]

\* ApplyUpdate with the written text dropped
ApplyUpdateDropped(sheet, row, text) == sheet

\* spreadsheets.values.update, range 'B<row>', values [[text]]
ApplyUpdate(sheet, row, text) ==
  Trim([Padded(sheet, row) EXCEPT ![row] = <<@[1], text>>])

\* spreadsheets.values.append, range 'A<row>', values [[key, text]]: the row goes
\* under the last row with data; on a blank sheet, to the row the range names
ApplyAppend(sheet, row, keyText, text) ==
  LET at == IF sheet = <<>> THEN row ELSE Len(sheet) + 1
  IN  Trim([Padded(sheet, at) EXCEPT ![at] = <<keyText, text>>])

\* spreadsheets.batchUpdate deleteDimension ROWS [startIndex, endIndex)
ApplyDeleteDimension(sheet, startIndex, endIndex) ==
  LET keep == {r \in 1..Len(sheet) : r <= startIndex \/ r > endIndex}
      Nth(n) == CHOOSE r \in keep : Cardinality({q \in keep : q < r}) = n - 1
  IN  Trim([n \in 1..Cardinality(keep) |-> sheet[Nth(n)]])

\* the sheet after the request has been carried out
Apply(sheet, req) ==
  CASE req[1] = "update" -> ApplyUpdate(sheet, req[2], req[3])
    [] req[1] = "append" -> ApplyAppend(sheet, req[2], req[3], req[4])
    [] OTHER -> ApplyDeleteDimension(sheet, req[2], req[3])

-----------------------------------------------------------------------------
(* Hydration: Cloud.fetchEverything *)

\* rowData[i + 1].values[1] exists (the API leaves out the cells after a row's
\* last cell with data): otherwise the parse and its catch both throw, and the
\* outer catch skips the row
Decodable(sheetRow) == sheetRow[2] # ""

\* rowDataValues[0].formattedValue
RowKey(sheetRow) == IF sheetRow[1] = "" THEN Undefined ELSE Str(sheetRow[1])

\* the loop over the data rows, rows 2 .. rowCount, from row on
RECURSIVE FetchKeys(_, _, _)
FetchKeys(sheet, row, keys) ==
  IF row > Len(sheet) THEN keys
  ELSE FetchKeys(sheet, row + 1,
         IF Decodable(sheet[row]) THEN Append(keys, RowKey(sheet[row])) ELSE keys)

RECURSIVE FetchMapUntilBlank(_, _, _)
\* FetchMap with the loop left at the first row that does not decode
FetchMapUntilBlank(sheet, row, map) ==
  IF row > Len(sheet) \/ ~Decodable(sheet[row]) THEN map
  ELSE FetchMapUntilBlank(sheet, row + 1,
         MapSet(map, RowKey(sheet[row]), ParseOrRaw(sheet[row][2])))

RECURSIVE FetchMap(_, _, _)
FetchMap(sheet, row, map) ==
  IF row > Len(sheet) THEN map
  ELSE FetchMap(sheet, row + 1,
         IF Decodable(sheet[row])
         THEN MapSet(map, RowKey(sheet[row]), ParseOrRaw(sheet[row][2]))
         ELSE map)

-----------------------------------------------------------------------------
(* Inputs *)

\* keys the callers use
Keys == {Str("a"), Str("b")}

\* path arguments; undefined is "no path"
Paths == {Undefined, Str("x"), Str("y")}

Flat1 == Obj([p \in {"x"} |-> Num(1)])
Nested == Obj([p \in {"x"} |-> Obj([q \in {"y"} |-> Num(1)])])
Array1 == Arr([p \in {"0"} |-> Num(1)])

\* value arguments written as literals by the caller
Values == {Undefined, Null, Num(1), Str("s"), Flat1, Nested, Array1}

\* value arguments of the calls that give a path
PathValues == {Undefined, Num(2)}

\* the value argument is a literal, not an object read back from the store
Literal == <<"literal">>

\* the sheet when the instance is constructed: a header row, then data rows
Header == <<"key", "value">>
InitRows == {<<"a", "1">>, <<"b", "{\"x\":1}">>, EmptyRow}
InitSheets ==
  {Trim(<<Header>> \o rows) :
     rows \in UNION {[1..n -> InitRows] : n \in 0..MaxInitRows}}

-----------------------------------------------------------------------------
(* State *)

Init ==
  /\ phase = "init"
  /\ spreadsheet = <<>>
  /\ cache = EmptyMap
  /\ shared = {}
  /\ keyRowNumbers = <<>>
  /\ remote \in InitSheets
  /\ pending = <<>>
  /\ failures = 0
  /\ calls = 0
  /\ renumbering = <<>>
  /\ last = "new"

\* the caller either awaits isReady and every call before the next (awaited),
\* or calls at any time
MayCall(awaited) ==
  /\ calls < MaxCalls
  /\ calls' = calls + 1
  /\ IF awaited THEN phase = "ready" /\ pending = <<>>
     ELSE Len(pending) < MaxPending

\* [_init] got the spreadsheet: fetchEverything, then isReady resolves
Hydrate ==
  /\ phase = "init"
  /\ phase' = "ready"
  /\ spreadsheet' = remote
  /\ keyRowNumbers' = FetchKeys(remote, 2, keyRowNumbers)
  /\ cache' = FetchMap(remote, 2, cache)
  /\ shared' = {t \in {s \ DOMAIN FetchMap(remote, 2, EmptyMap) : s \in shared} :
                  Cardinality(t) >= 2}
  /\ last' = "ready"
  /\ UNCHANGED <<remote, pending, failures, calls, renumbering>>

\* authorization or spreadsheets.get rejects: [_init] ends, isReady stays pending
InitFails ==
  /\ phase = "init"
  /\ phase' = "dead"
  /\ last' = "dead"
  /\ UNCHANGED <<spreadsheet, cache, shared, keyRowNumbers, remote, pending, failures, calls, renumbering>>

\* _spreadsheet.data throws while _spreadsheet, a variable of the module that
\* keeps the answer an earlier instance got, is undefined
SheetKnown == spreadsheet # <<>>

\* SpreadsheetSet with the header row not counted in the range
SpreadsheetSetOneBased(key, value) ==
  /\ UNCHANGED keyRowNumbers
  /\ IF SheetKnown
     THEN /\ pending' = Append(pending,
               <<"_spreadsheetSet",
                 <<"update", IndexOf(keyRowNumbers, key) + 1, CellText(Encode(value))>>>>)
          /\ UNCHANGED failures
     ELSE /\ failures < MaxFailures
          /\ failures' = failures + 1
          /\ UNCHANGED pending

\* _spreadsheetSet(key, value)
SpreadsheetSet(key, value) ==
  /\ UNCHANGED keyRowNumbers
  /\ IF SheetKnown
     THEN /\ pending' = Append(pending,
               <<"_spreadsheetSet",
                 <<"update", IndexOf(keyRowNumbers, key) + 2, CellText(Encode(value))>>>>)
          /\ UNCHANGED failures
     ELSE /\ failures < MaxFailures
          /\ failures' = failures + 1
          /\ UNCHANGED pending

\* _spreadsheetAppend(key, value)
SpreadsheetAppend(key, value) ==
  /\ keyRowNumbers' = Append(keyRowNumbers, key)
  /\ IF SheetKnown
     THEN /\ pending' = Append(pending,
               <<"_spreadsheetAppend",
                 <<"append", Len(keyRowNumbers) + 2, CellText(key),
                   CellText(Encode(value))>>>>)
          /\ UNCHANGED failures
     ELSE /\ failures < MaxFailures
          /\ failures' = failures + 1
          /\ UNCHANGED pending

\* _spreadsheetDelete(key)
SpreadsheetDelete(key) ==
  LET index == IndexOf(keyRowNumbers, key)
  IN  /\ keyRowNumbers' = Splice(keyRowNumbers, index)
      /\ IF SheetKnown
         THEN /\ pending' = Append(pending,
                   <<"_spreadsheetDelete", <<"deleteDimension", index + 1, index + 2>>>>)
              /\ UNCHANGED failures
         ELSE /\ failures < MaxFailures
          /\ failures' = failures + 1
              /\ UNCHANGED pending

\* SpreadsheetDeleteAll with the header row not counted in endIndex
SpreadsheetDeleteAllShort ==
  /\ UNCHANGED keyRowNumbers
  /\ IF SheetKnown
     THEN /\ pending' = Append(pending,
               <<"_spreadsheetDeleteAll",
                 <<"deleteDimension", 1, Len(keyRowNumbers)>>>>)
          /\ UNCHANGED failures
     ELSE /\ failures < MaxFailures
          /\ failures' = failures + 1
          /\ UNCHANGED pending

\* _spreadsheetDeleteAll(), up to its await
SpreadsheetDeleteAll ==
  /\ UNCHANGED keyRowNumbers
  /\ IF SheetKnown
     THEN /\ pending' = Append(pending,
               <<"_spreadsheetDeleteAll",
                 <<"deleteDimension", 1, Len(keyRowNumbers) + 1>>>>)
          /\ UNCHANGED failures
     ELSE /\ failures < MaxFailures
          /\ failures' = failures + 1
          /\ UNCHANGED pending

\* NewValue with the value serialized before it is stored
NewValueSerialized(currentValue, path, value) ==
  IF Truthy(path)
  THEN IF IsPlainObject(currentValue)
       THEN LodashSet(currentValue, path, value)
       ELSE LodashSet(Obj(NoProps), path, value)
  ELSE Encode(value)

\* the value set(key, path, value) stores
NewValue(currentValue, path, value) ==
  IF Truthy(path)
  THEN IF IsPlainObject(currentValue)
       THEN LodashSet(currentValue, path, value)
       ELSE LodashSet(Obj(NoProps), path, value)
  ELSE value

\* StoredMap with super.set moved behind the await
StoredMapLate(inPlace, key, newValue) == cache

\* the Map after _.set (which changes a stored plain object in place) and
\* super.set(key, newValue)
StoredMap(inPlace, key, newValue) ==
  IF inPlace THEN MutateInPlace(cache, key, newValue)
  ELSE MapSet(cache, key, newValue)

\* InvalidValue with null tested in place of undefined
InvalidValueNull(value) == value = Null

\* if (value === undefined) throw
InvalidValue(value) == value = Undefined

\* set(...arguments), up to the await of the remote call. ref is Literal, or
\* the key under which the store holds the object passed as value
Set(awaited, nargs, a1, a2, a3, ref) ==
  LET key == a1
      path == IF nargs = 2 THEN Undefined ELSE a2
      value == IF nargs = 2 THEN a2 ELSE a3
      currentValue == MapGet(cache, key)
      inPlace == Truthy(path) /\ IsPlainObject(currentValue)
      newValue == NewValue(currentValue, path, value)
  IN  /\ MayCall(awaited)
      /\ \/ ref = Literal
         \/ ref \in DOMAIN cache /\ cache[ref] = value /\ IsObject(value) /\ nargs = 2
      /\ IF InvalidValue(value)
         THEN /\ last' = "set:throw"
              /\ renumbering' = <<>>
              /\ UNCHANGED <<phase, spreadsheet, cache, shared, keyRowNumbers, remote, pending, failures>>
         ELSE /\ cache' = StoredMap(inPlace, key, newValue)
              /\ shared' = IF inPlace THEN shared
                           ELSE IF ref = Literal THEN Unshare(key)
                           ELSE ShareWith(key, ref)
              /\ IF currentValue # Undefined THEN SpreadsheetSet(key, newValue)
                 ELSE SpreadsheetAppend(key, newValue)
              /\ renumbering' = <<>>
              /\ last' = "set"
              /\ UNCHANGED <<phase, spreadsheet, remote>>

\* delete(key, path), up to the await of the remote call
Delete(awaited, key, path) ==
  LET currentValue == MapGet(cache, key)
      pruned == LodashUnset(currentValue, path)
  IN  /\ MayCall(awaited)
      /\ IF currentValue = Undefined
         THEN /\ last' = "delete:absent"
              /\ renumbering' = <<>>
              /\ UNCHANGED <<phase, spreadsheet, cache, shared, keyRowNumbers, remote, pending, failures>>
         ELSE IF Truthy(path) /\ ~IsPlainObject(currentValue)
         THEN /\ last' = "delete:throw"
              /\ renumbering' = <<>>
              /\ UNCHANGED <<phase, spreadsheet, cache, shared, keyRowNumbers, remote, pending, failures>>
         ELSE IF Truthy(path)
         THEN /\ cache' = MutateInPlace(cache, key, pruned)
              /\ SpreadsheetSet(key, pruned)
              /\ renumbering' = <<>>
              /\ last' = "delete"
              /\ UNCHANGED <<phase, spreadsheet, shared, remote>>
         ELSE /\ cache' = MapDelete(cache, key)
              /\ shared' = Unshare(key)
              /\ SpreadsheetDelete(key)
              /\ renumbering' = <<key, keyRowNumbers>>
              /\ last' = "delete"
              /\ UNCHANGED <<phase, spreadsheet, remote>>

\* deleteAll(), up to the await of the remote call
DeleteAll(awaited) ==
  /\ MayCall(awaited)
  /\ cache' = EmptyMap
  /\ shared' = {}
  /\ SpreadsheetDeleteAll
  /\ renumbering' = <<>>
  /\ last' = "deleteAll"
  /\ UNCHANGED <<phase, spreadsheet, remote>>

\* clear(), which Cloud inherits from Map and does not override: the Map is
\* emptied, nothing is sent and _keyRowNumbers stays as it is
Clear(awaited) ==
  /\ MayCall(awaited)
  /\ cache' = EmptyMap
  /\ shared' = {}
  /\ renumbering' = <<>>
  /\ last' = "clear"
  /\ UNCHANGED <<phase, spreadsheet, keyRowNumbers, remote, pending, failures>>

\* fetchEverything() called by the user: the rows of the answer _spreadsheet
\* holds are pushed and set once more; it throws while _spreadsheet is undefined
FetchEverything(awaited) ==
  /\ MayCall(awaited)
  /\ IF SheetKnown
     THEN /\ keyRowNumbers' = FetchKeys(spreadsheet, 2, keyRowNumbers)
          /\ cache' = FetchMap(spreadsheet, 2, cache)
          /\ shared' = {t \in {s \ DOMAIN FetchMap(spreadsheet, 2, EmptyMap) : s \in shared} :
                          Cardinality(t) >= 2}
          /\ last' = "fetchEverything"
     ELSE /\ last' = "fetchEverything:throw"
          /\ UNCHANGED <<cache, shared, keyRowNumbers>>
  /\ renumbering' = <<>>
  /\ UNCHANGED <<phase, spreadsheet, remote, pending, failures>>

Without(seq, i) == SubSeq(seq, 1, i - 1) \o SubSeq(seq, i + 1, Len(seq))

\* the remote call pending[i] is carried out and its await resumes
Resolve(i) ==
  /\ i \in 1..Len(pending)
  /\ remote' = Apply(remote, pending[i][2])
  /\ keyRowNumbers' = IF pending[i][1] = "_spreadsheetDeleteAll" THEN <<>>
                      ELSE keyRowNumbers
  /\ pending' = Without(pending, i)
  /\ last' = "resolve:" \o pending[i][1]
  /\ UNCHANGED <<phase, spreadsheet, cache, shared, failures, calls, renumbering>>

\* the remote call pending[i] fails: the sheet is as before, the await throws
Reject(i) ==
  /\ i \in 1..Len(pending)
  /\ pending' = Without(pending, i)
  /\ failures < MaxFailures
  /\ failures' = failures + 1
  /\ renumbering' = <<>>
  /\ last' = "reject:" \o pending[i][1]
  /\ UNCHANGED <<phase, spreadsheet, cache, shared, keyRowNumbers, remote, calls>>

Calls(awaited) ==
  \/ \E key \in Keys, value \in Values : Set(awaited, 2, key, value, Undefined, Literal)
  \/ \E key \in Keys, ref \in Keys : Set(awaited, 2, key, MapGet(cache, ref), Undefined, ref)
  \/ \E key \in Keys, path \in Paths, value \in PathValues :
       Set(awaited, 3, key, path, value, Literal)
  \/ \E key \in Keys, path \in Paths : Delete(awaited, key, path)
  \/ DeleteAll(awaited)
  \/ Clear(awaited)
  \/ FetchEverything(awaited)

Next ==
  \/ Hydrate
  \/ InitFails
  \/ Calls(FALSE)
  \/ \E i \in 1..MaxPending : Resolve(i)
  \/ \E i \in 1..MaxPending : Reject(i)

\* the store under any caller
Spec == Init /\ [][Next]_vars

SeqNext ==
  \/ Hydrate
  \/ InitFails
  \/ Calls(TRUE)
  \/ Resolve(1)
  \/ Reject(1)

\* the store under a caller that awaits isReady, then every call before the next
SeqSpec == Init /\ [][SeqNext]_vars

\* new Cloud(options, authInformations) once more in the same process, on the
\* same spreadsheet, when the instance before is ready and idle: the new
\* instance has a Map and an isReady of its own, while _keyRowNumbers (and
\* _spreadsheet, sheets) are variables of the module. The model follows the
\* newest instance.
NewInstance ==
  /\ MayCall(TRUE)
  /\ phase' = "init"
  /\ cache' = EmptyMap
  /\ shared' = {}
  /\ renumbering' = <<>>
  /\ last' = "new"
  /\ UNCHANGED <<spreadsheet, keyRowNumbers, remote, pending, failures>>

ProcessNext ==
  \/ SeqNext
  \/ NewInstance

\* a process that constructs instances one after the other, awaiting every call
ProcessSpec == Init /\ [][ProcessNext]_vars

-----------------------------------------------------------------------------
(* Properties *)

\* hydrated, nothing in flight, nothing rejected
Settled == phase = "ready" /\ pending = <<>> /\ failures = 0

Elements(seq) == {seq[i] : i \in 1..Len(seq)}

\* seq without every occurrence of key, order kept
Others(seq, key) == LET Keep(k) == k # key IN SelectSeq(seq, Keep)

\* the call issued last
Newest(calls_) == calls_[Len(calls_)]

\* C1: after hydration and after every awaited set, delete or deleteAll that
\* was carried out, _keyRowNumbers[i] is the key in column A of sheet row i + 2,
\* whatever the sheet held when the instance was constructed.
C1_PositionalAddressing ==
  Settled =>
    \A i \in 1..Len(keyRowNumbers) :
      RowAt(remote, i + 1)[1] = CellText(keyRowNumbers[i])

\* C2: after hydration and after every awaited call that was carried out,
\* _keyRowNumbers lists exactly the keys of the Map, each once.
C2_IndexMatchesCache ==
  Settled =>
    /\ Len(keyRowNumbers) = Cardinality(DOMAIN cache)
    /\ \A i, j \in 1..Len(keyRowNumbers) :
         keyRowNumbers[i] = keyRowNumbers[j] => i = j
    /\ Elements(keyRowNumbers) = DOMAIN cache

\* C3: once hydrated, with no call in flight and none rejected, column B of the
\* row _keyRowNumbers gives for a key holds the encoding of the key's Map value,
\* and no sheet row below the header has a key that the Map lacks.
C3_CacheRemoteAgreement ==
  Settled =>
    /\ \A key \in DOMAIN cache :
         RowAt(remote, IndexOf(keyRowNumbers, key) + 2)[2]
           = CellText(Encode(cache[key]))
    /\ \A row \in 2..Len(remote) :
         remote[row][1] # "" => Str(remote[row][1]) \in DOMAIN cache

\* C4: when delete(k1) of a key before k2 in _keyRowNumbers has been carried
\* out, the next set on k2 sends its update to k2's row as _keyRowNumbers now
\* gives it, one above the row it had, and that sheet row holds k2.
C4_Renumbering ==
  [][\A k2 \in Keys, value \in Values \ {Undefined} :
       ( /\ Set(TRUE, 2, k2, value, Undefined, Literal)
         /\ failures = 0
         /\ renumbering # <<>>
         /\ k2 \in DOMAIN cache
         /\ IndexOf(renumbering[2], renumbering[1]) < IndexOf(renumbering[2], k2) )
       => LET request == Newest(pending')[2]
          IN  /\ request[1] = "update"
              /\ request[2] = IndexOf(keyRowNumbers, k2) + 2
              /\ request[2] = IndexOf(renumbering[2], k2) + 2 - 1
              /\ RowAt(remote, request[2])[1] = CellText(k2)]_vars

\* what ensure is to return: the default for an absent key, else what get returns
C5_Expected(key, path, defaultValue) ==
  IF key \in DOMAIN cache THEN Get(cache, key, path) ELSE defaultValue

\* default arguments of ensure
Defaults == {Num(7), Str("x")}

\* C5: ensure(key, default) and ensure(key, path, default) return the default
\* exactly for a key the Map lacks, and what get(key, path) returns otherwise.
C5_EnsureDefaultFallback ==
  \A key \in Keys, defaultValue \in Defaults :
    /\ Ensure(cache, 2, key, defaultValue, Undefined)
         = C5_Expected(key, Undefined, defaultValue)
    /\ \A path \in Paths :
         Ensure(cache, 3, key, path, defaultValue)
           = C5_Expected(key, path, defaultValue)

\* C6: deleteAll() empties the Map and issues one deleteDimension for the rows
\* 2 .. n + 1, n the length of _keyRowNumbers at the call; when that is carried
\* out _keyRowNumbers is empty, the Map is empty and nothing else was issued.
C6_DeleteAll ==
  [][ /\ DeleteAll(TRUE) =>
           /\ cache' = EmptyMap
           /\ pending' = <<<<"_spreadsheetDeleteAll",
                             <<"deleteDimension", 1, Len(keyRowNumbers) + 1>>>>>>
      /\ (Resolve(1) /\ pending[1][1] = "_spreadsheetDeleteAll") =>
           /\ cache' = EmptyMap
           /\ keyRowNumbers' = <<>>
           /\ pending' = <<>>
           /\ remote' = ApplyDeleteDimension(remote, 1, Len(keyRowNumbers) + 1)
    ]_vars

C6_Witness ==
  /\ last = "resolve:_spreadsheetDeleteAll"
  /\ failures = 0
  /\ calls = 1
  /\ cache = EmptyMap
  /\ keyRowNumbers = <<>>
  /\ remote = <<Header>>

\* C7: delete(key) of a key the Map holds leaves the key in neither the Map
\* nor _keyRowNumbers, get(key) undefined, the other keys in their order, and
\* issues one deleteDimension for the sheet row the key was in.
C7_DeleteCompleteness ==
  [][\A key \in Keys :
       (Delete(TRUE, key, Undefined) /\ key \in DOMAIN cache /\ failures = 0)
       => /\ key \notin DOMAIN cache'
          /\ key \notin Elements(keyRowNumbers')
          /\ Get(cache', key, Undefined) = Undefined
          /\ keyRowNumbers' = Others(keyRowNumbers, key)
          /\ \E row \in 2..Len(remote) :
               /\ remote[row][1] = CellText(key)
               /\ pending' = <<<<"_spreadsheetDelete",
                                 <<"deleteDimension", row - 1, row>>>>>>]_vars

\* C8: set(key, value) followed by get(key) returns value, for every defined
\* value and whatever the key held.
C8_RoundTrip ==
  [][\A key \in Keys, value \in Values \ {Undefined} :
       Set(FALSE, 2, key, value, Undefined, Literal)
       => Get(cache', key, Undefined) = value]_vars

C8_Witness ==
  /\ last = "set"
  /\ calls = 1
  /\ pending = <<<<"_spreadsheetSet", <<"update", 3, "[1]">>>>>>
  /\ RowAt(remote, 3) = <<"b", "{\"x\":1}">>
  /\ Get(cache, Str("b"), Undefined) = Array1

\* C9: set(key, path, value) on a key holding a nested value changes the
\* property at path only: the other properties of the value and the other
\* keys of the Map are as before.
C9_PartialUpdate ==
  [][\A key \in Keys, path \in Paths \ {Undefined}, value \in PathValues \ {Undefined} :
       ( /\ Set(FALSE, 3, key, path, value, Literal)
         /\ IsObject(MapGet(cache, key)) )
       => /\ Get(cache', key, path) = value
          /\ \A name \in DOMAIN cache[key][2] \ {path[2]} :
               Prop(cache'[key], name) = cache[key][2][name]
          /\ DOMAIN cache' = DOMAIN cache
          /\ \A other \in DOMAIN cache \ {key} : cache'[other] = cache[other]]_vars

\* C10: set writes the Map before its remote call is answered: right after
\* the call, with the request in flight and the sheet untouched, get(key)
\* returns the new value.
C10_CacheBeforeReplication ==
  [][\A key \in Keys, value \in Values \ {Undefined} :
       (Set(FALSE, 2, key, value, Undefined, Literal) /\ SheetKnown)
       => /\ Len(pending') = Len(pending) + 1
          /\ Newest(pending')[1] \in {"_spreadsheetSet", "_spreadsheetAppend"}
          /\ Newest(pending')[2][Len(Newest(pending')[2])] = CellText(Encode(value))
          /\ remote' = remote
          /\ Get(cache', key, Undefined) = value]_vars

C10_Witness ==
  /\ last = "set"
  /\ phase = "ready"
  /\ Newest(pending) = <<"_spreadsheetSet", <<"update", 2, "{\"x\":{\"y\":1}}">>>>
  /\ RowAt(remote, 2) = <<"a", "1">>
  /\ Get(cache, Str("a"), Undefined) = Nested

\* the data rows of the sheet that fetchEverything decodes
DecodableRows(sheet) == {r \in 2..Len(sheet) : Decodable(sheet[r])}

\* C11: isReady fulfils only out of the pending [_init], in the step that has
\* put every decodable data row of the sheet into the Map (the value of the
\* key's last row) and into _keyRowNumbers; once fulfilled it stays fulfilled,
\* and after a failed authorization or fetch it never fulfils.
C11_Readiness ==
  [][ /\ (phase' = "ready" /\ phase # "ready") =>
           /\ phase = "init"
           /\ \A r \in DecodableRows(remote) :
                /\ RowKey(remote[r]) \in DOMAIN cache'
                /\ RowKey(remote[r]) \in Elements(keyRowNumbers')
                /\ (\A q \in DecodableRows(remote) :
                      RowKey(remote[q]) = RowKey(remote[r]) => q <= r)
                   => cache'[RowKey(remote[r])] = ParseOrRaw(remote[r][2])
      /\ phase = "ready" => phase' = "ready"
      /\ phase = "dead" => phase' = "dead"
    ]_vars

C11_Witness ==
  /\ phase = "ready"
  /\ last = "ready"
  /\ remote = <<Header, <<"a", "1">>, EmptyRow, <<"b", "{\"x\":1}">>>>
  /\ keyRowNumbers = <<Str("a"), Str("b")>>
  /\ Get(cache, Str("b"), Undefined) = Flat1

\* C12: set(key, undefined) and set(key, path, undefined) throw and leave the
\* Map, _keyRowNumbers, the sheet and the calls in flight as they were.
C12_InvalidValue ==
  [][\A key \in Keys, path \in Paths :
       ( \/ Set(FALSE, 2, key, Undefined, Undefined, Literal)
         \/ Set(FALSE, 3, key, path, Undefined, Literal) )
       => /\ last' = "set:throw"
          /\ UNCHANGED <<cache, shared, keyRowNumbers, remote, pending, failures>>]_vars

C12_Witness ==
  /\ last = "set:throw"
  /\ phase = "ready"
  /\ calls = 2
  /\ pending # <<>>
  /\ Str("a") \in DOMAIN cache

\* C13: delete(key, path) on a key the Map holds throws exactly when the
\* key's value is neither an object nor an array, and the throwing call leaves
\* the Map, _keyRowNumbers, the sheet and the calls in flight as they were.
C13_InvalidOperation ==
  [][\A key \in Keys, path \in Paths \ {Undefined} :
       (Delete(TRUE, key, path) /\ key \in DOMAIN cache)
       => /\ last' = "delete:throw" <=> ~IsObject(cache[key])
          /\ last' = "delete:throw" =>
               UNCHANGED <<cache, shared, keyRowNumbers, remote, pending, failures>>]_vars

\* the one request set(key, ...) is to issue for newValue
C14_Expected(key, newValue) ==
  IF key \in DOMAIN cache
  THEN <<"_spreadsheetSet",
         <<"update", IndexOf(keyRowNumbers, key) + 2, CellText(Encode(newValue))>>>>
  ELSE <<"_spreadsheetAppend",
         <<"append", Len(keyRowNumbers) + 2, CellText(key), CellText(Encode(newValue))>>>>

\* C14: a set with a defined value issues exactly one remote call: for a key
\* the Map holds, an update of column B of the row _keyRowNumbers gives for the
\* key, with _keyRowNumbers unchanged; for another key, an append of
\* (key, encoded value), with the key pushed at the end of _keyRowNumbers.
C14_ReplicationChoice ==
  [][\A key \in Keys :
       \A form \in ({<<Undefined, value>> : value \in Values \ {Undefined}}
                      \cup {<<path, value>> : path \in Paths \ {Undefined},
                                              value \in PathValues \ {Undefined}}) :
         ( /\ \/ form[1] = Undefined /\ Set(TRUE, 2, key, form[2], Undefined, Literal)
              \/ form[1] # Undefined /\ Set(TRUE, 3, key, form[1], form[2], Literal) )
         => /\ pending' = Append(pending,
                 C14_Expected(key, NewValue(MapGet(cache, key), form[1], form[2])))
            /\ IF key \in DOMAIN cache
               THEN /\ keyRowNumbers' = keyRowNumbers
                    /\ key \in Elements(keyRowNumbers)
               ELSE keyRowNumbers' = Append(keyRowNumbers, key)]_vars

C14_Witness ==
  /\ last = "set"
  /\ calls = 2
  /\ keyRowNumbers = <<Str("b"), Str("a")>>
  /\ pending = <<<<"_spreadsheetSet", <<"update", 2, "{\"x\":1,\"y\":2}">>>>>>
  /\ remote = <<Header, <<"b", "{\"x\":1}">>, <<"a", "s">>>>

\* C15: delete(key, path) on a key holding an object or an array removes the
\* property at path and nothing else from the key's value, keeps the key in
\* the Map and _keyRowNumbers as it is, leaves the other keys' values alone and
\* issues one update of the key's row with the encoding of the pruned value.
C15_PartialDelete ==
  [][\A key \in Keys, path \in Paths \ {Undefined} :
       ( /\ Delete(TRUE, key, path)
         /\ IsObject(MapGet(cache, key)) )
       => /\ DOMAIN cache' = DOMAIN cache
          /\ IsObject(cache'[key])
          /\ DOMAIN cache'[key][2] = DOMAIN cache[key][2] \ {path[2]}
          /\ \A name \in DOMAIN cache'[key][2] : cache'[key][2][name] = cache[key][2][name]
          /\ \A other \in DOMAIN cache \ {key} : cache'[other] = cache[other]
          /\ keyRowNumbers' = keyRowNumbers
          /\ pending' = <<<<"_spreadsheetSet",
                            <<"update", IndexOf(keyRowNumbers, key) + 2,
                              CellText(Encode(cache'[key]))>>>>>>]_vars

\* C16: when the remote call of an awaited set or delete is rejected, the call
\* is rejected and the Map keeps what the call wrote before the remote call:
\* the value set (the one the request carries) or the absence of the deleted
\* key; the sheet is as it was.
C16_ReplicationFailure ==
  [][ ( /\ Reject(1)
        /\ pending[1][1] \in {"_spreadsheetSet", "_spreadsheetAppend", "_spreadsheetDelete"} )
      => LET request == pending[1][2]
         IN  /\ failures' = failures + 1
             /\ last' = "reject:" \o pending[1][1]
             /\ cache' = cache
             /\ remote' = remote
             /\ pending[1][1] = "_spreadsheetAppend" =>
                  /\ Str(request[3]) \in DOMAIN cache'
                  /\ CellText(Encode(cache'[Str(request[3])])) = request[4]
             /\ pending[1][1] = "_spreadsheetSet" =>
                  LET key == keyRowNumbers[request[2] - 1]
                  IN  /\ key \in DOMAIN cache'
                      /\ CellText(Encode(cache'[key])) = request[3]
             /\ pending[1][1] = "_spreadsheetDelete" =>
                  /\ renumbering # <<>>
                  /\ renumbering[1] \notin DOMAIN cache'
    ]_vars

C16_Witness ==
  /\ last = "reject:_spreadsheetSet"
  /\ failures = 1
  /\ calls = 1
  /\ remote = <<Header, <<"a", "1">>>>
  /\ Get(cache, Str("a"), Undefined) = Nested

\* C17: two sets on one key race: when the update answered last carries another
\* text than the encoding of the value the Map holds for its key (a later set
\* wrote the Map and its request was answered first), the store settles with
\* the key's row holding the older text, at odds with the Map.
C17_UnserializedWrites ==
  [][ ( /\ Resolve(1)
        /\ Len(pending) = 1
        /\ pending[1][1] = "_spreadsheetSet"
        /\ failures = 0
        /\ pending[1][2][2] - 1 \in 1..Len(keyRowNumbers)
        /\ keyRowNumbers[pending[1][2][2] - 1] \in DOMAIN cache
        /\ CellText(Encode(cache[keyRowNumbers[pending[1][2][2] - 1]])) # pending[1][2][3] )
      => LET row == pending[1][2][2]
             key == keyRowNumbers[row - 1]
         IN  /\ phase' = "ready" /\ pending' = <<>> /\ failures' = 0
             /\ key \in DOMAIN cache'
             /\ keyRowNumbers' = keyRowNumbers
             /\ RowAt(remote', row)[2] = pending[1][2][3]
             /\ RowAt(remote', row)[2] # CellText(Encode(cache'[key]))
    ]_vars

\* two literal sets on "a", hydrated from the row ("a", "1"), were both
\* answered, and the sheet holds the value of the one that wrote the Map first
C17_Witness ==
  /\ phase = "ready" /\ pending = <<>> /\ failures = 0
  /\ calls = 2
  /\ shared = {}
  /\ last = "resolve:_spreadsheetSet"
  /\ keyRowNumbers = <<Str("a")>>
  /\ remote = <<Header, <<"a", "s">>>>
  /\ cache = [k \in {Str("a")} |-> Null]

\* C18: _keyRowNumbers is empty when an instance is constructed, the first or a
\* later one, and when its isReady fulfils _keyRowNumbers lists the keys of the
\* decodable data rows of the instance's sheet, in row order, one per row.
C18_PerInstanceHydration ==
  [][ /\ (phase' = "init" /\ phase # "init") => keyRowNumbers' = <<>>
      /\ (phase = "init" /\ phase' = "ready") =>
           keyRowNumbers' = FetchKeys(remote, 2, <<>>)
    ]_vars

\* C19: a key set while the deletion of a deleteAll() is in flight (the Map,
\* emptied by deleteAll, holds it when the deletion is answered as the last
\* call in flight, none having failed) is still in the Map with its value and
\* in _keyRowNumbers, and _keyRowNumbers is as long as the Map has keys.
C19_SetDuringDeleteAll ==
  [][\A k \in Keys :
       ( /\ Resolve(1)
         /\ Len(pending) = 1
         /\ pending[1][1] = "_spreadsheetDeleteAll"
         /\ failures = 0
         /\ k \in DOMAIN cache )
       => /\ k \in DOMAIN cache'
          /\ cache'[k] = cache[k]
          /\ k \in Elements(keyRowNumbers')
          /\ Len(keyRowNumbers') = Cardinality(DOMAIN cache')]_vars

\* C20: a set, delete or deleteAll called before isReady fulfils fails and
\* leaves the Map and _keyRowNumbers as they were, and when isReady fulfils
\* _keyRowNumbers lists the keys of the decodable data rows in row order and
\* the Map holds exactly these keys.
C20_CallsBeforeReadiness ==
  [][ /\ (phase = "init" /\ calls' = calls + 1 /\ failures' = failures + 1) =>
           /\ cache' = cache
           /\ keyRowNumbers' = keyRowNumbers
      /\ (phase = "init" /\ phase' = "ready") =>
           /\ keyRowNumbers' = FetchKeys(remote, 2, <<>>)
           /\ DOMAIN cache' = Elements(FetchKeys(remote, 2, <<>>))
    ]_vars

=============================================================================
